---------------------------- MODULE Spec2Model ----------------------------
(* Hierarchical finite-state-machine engine of src/src/state_machine.c      *)
(* (declarations in src/inc/state_machine.h).  The state graph is static    *)
(* caller data; the engine owns state_current/state_previous/state_error.   *)
(* Every callback the engine invokes is recorded, in call order, together   *)
(* with the arguments it receives and the machine fields it can observe at  *)
(* the time of the call.                                                    *)
EXTENDS Integers, Sequences, FiniteSets, TLC

(***************************************************************************)
(* Program constants                                                       *)
(***************************************************************************)
NULL == 0

STATEM_ERR_ARG == -2
STATEM_ERR_STATE_RECHED == -1
STATEM_STATE_CHANGED == 0
STATEM_STATE_LOOPSELF == 1
STATEM_STATE_NOCHANGE == 2
STATEM_FINAL_STATE_RECHED == 3

ReturnVals ==
    { STATEM_ERR_ARG, STATEM_ERR_STATE_RECHED, STATEM_STATE_CHANGED,
      STATEM_STATE_LOOPSELF, STATEM_STATE_NOCHANGE, STATEM_FINAL_STATE_RECHED }

EVENT_KEYBOARD == 0

\* A null function pointer (guard, action, action_entry, action_exti).
NULLFN == "NULL"

(***************************************************************************)
(* Bounds of the explored inputs                                           *)
(***************************************************************************)
\* event types are 0 .. MaxType, event payloads (characters) 1 .. MaxChar
MaxType == 1
MaxChar == 2

EventTypes == 0 .. MaxType
EventData == 1 .. MaxChar

\* struct event; a null event pointer is the record with null = TRUE.
Event(type, data) == [null |-> FALSE, type |-> type, data |-> data]
NullEvent == [null |-> TRUE, type |-> 0, data |-> 0]
Events == { Event(t, d) : t \in EventTypes, d \in EventData }

(***************************************************************************)
(* The state graph: a function from state identities (positive integers,   *)
(* the addresses of the struct state objects) to struct state records.     *)
(***************************************************************************)
Transition(event_type, condition, guard, action, state_next) ==
    [ event_type |-> event_type, condition |-> condition, guard |-> guard,
      action |-> action, state_next |-> state_next ]

State(state_parent, state_entry, transitions, data, action_entry, action_exti) ==
    [ state_parent |-> state_parent, state_entry |-> state_entry,
      transitions |-> transitions, data |-> data,
      action_entry |-> action_entry, action_exti |-> action_exti ]

\* state.transition_nums: the length of the transitions array
transition_nums(s) == Len(s.transitions)

VARIABLES
    graph,           \* the caller's static state graph
    state_current,   \* fsm->state_current
    state_previous,  \* fsm->state_previous
    state_error,     \* fsm->state_error
    ret,             \* return value of the last call
    calls,           \* callbacks invoked by the last call, in call order
    last,            \* the last call: operation, arguments, machine before it
    frame            \* statem_handle_event in progress: position, state_next

vars ==
    << graph, state_current, state_previous, state_error, ret, calls, last,
       frame >>

Machine(cur, prev, err) ==
    [ state_current |-> cur, state_previous |-> prev, state_error |-> err ]

\* One callback invocation: which function pointer, of which state (and
\* transition index, 0 for a state's own action), with which arguments, and
\* the machine fields as they are while the callback runs.
Call(kind, fn, state, idx, arg1, event, arg3, m) ==
    [ kind |-> kind, fn |-> fn, state |-> state, idx |-> idx,
      arg1 |-> arg1, event |-> event, arg3 |-> arg3,
      state_current |-> m.state_current, state_previous |-> m.state_previous ]

(***************************************************************************)
(* Guards of the examples                                                  *)
(***************************************************************************)
\* keyboard_char_compare( ch, event )
keyboard_char_compare(ch, event) ==
    IF event.type # EVENT_KEYBOARD THEN FALSE ELSE ch = event.data

\* Event types of the post example
EVENT_POST_NULL == 0
EVENT_POST_START == 1
EVENT_POST_BREAKON == 2
EVENT_POST_BREAKOFF == 3
EVENT_POST_ANSWER == 4
EVENT_POST_NUMS == 5

\* guard_post_pass( condition, event )
\* (mutation: the payload is not compared with the condition)
guard_post_pass_any_answer(condition, event) ==
    event.type = EVENT_POST_ANSWER

guard_post_pass(condition, event) ==
    IF event.type # EVENT_POST_ANSWER THEN FALSE ELSE event.data = condition

\* guard_post_fail( condition, event )
\* (mutation: every answer but 0 counts as a failure)
guard_post_fail_nonzero(condition, event) ==
    IF event.type # EVENT_POST_ANSWER THEN FALSE ELSE event.data # 0

guard_post_fail(condition, event) ==
    IF event.type # EVENT_POST_ANSWER THEN FALSE ELSE event.data = condition

\* Calling through a guard pointer: t->guard( t->condition, event )
GuardResult(fn, condition, event) ==
    CASE fn = "keyboard_char_compare" -> keyboard_char_compare(condition, event)
      [] fn = "guard_post_pass" -> guard_post_pass(condition, event)
      [] fn = "guard_post_fail" -> guard_post_fail(condition, event)
      [] OTHER -> FALSE

(***************************************************************************)
(* go_to_state_error                                                       *)
(***************************************************************************)
\* (mutation: the entry action is skipped when the machine already is in
\* the error state, as it is for a state that returns to itself)
go_to_state_error_unless_there(g, m, event) ==
    LET m1 == [m EXCEPT !.state_previous = m.state_current,
                        !.state_current = m.state_error]
        cur == m1.state_current
    IN  [ m |-> m1,
          calls |-> IF cur # NULL /\ cur # m.state_current
                       /\ g[cur].action_entry # NULLFN
                    THEN << Call("entry", g[cur].action_entry, cur, 0,
                                 g[cur].data, event, NULL, m1) >>
                    ELSE << >> ]

\* (mutation: state_previous is not updated on the way to the error state)
go_to_state_error_keeps_previous(g, m, event) ==
    LET m1 == [m EXCEPT !.state_current = m.state_error]
        cur == m1.state_current
    IN  [ m |-> m1,
          calls |-> IF cur # NULL /\ g[cur].action_entry # NULLFN
                    THEN << Call("entry", g[cur].action_entry, cur, 0,
                                 g[cur].data, event, NULL, m1) >>
                    ELSE << >> ]

\* (mutation: the entry action is looked up before state_current is set)
go_to_state_error_entry_first(g, m, event) ==
    LET m1 == [m EXCEPT !.state_previous = m.state_current,
                        !.state_current = m.state_error]
        cur == m.state_current
    IN  [ m |-> m1,
          calls |-> IF cur # NULL /\ g[cur].action_entry # NULLFN
                    THEN << Call("entry", g[cur].action_entry, cur, 0,
                                 g[cur].data, event, NULL, m1) >>
                    ELSE << >> ]

\* (mutation: without an error state the machine stays where it is)
go_to_state_error_if_any(g, m, event) ==
    IF m.state_error = NULL
    THEN [ m |-> m, calls |-> << >> ]
    ELSE LET m1 == [m EXCEPT !.state_previous = m.state_current,
                             !.state_current = m.state_error]
         IN  [ m |-> m1,
               calls |-> IF g[m.state_error].action_entry # NULLFN
                         THEN << Call("entry", g[m.state_error].action_entry,
                                      m.state_error, 0, g[m.state_error].data,
                                      event, NULL, m1) >>
                         ELSE << >> ]

go_to_state_error(g, m, event) ==
    LET m1 == [m EXCEPT !.state_previous = m.state_current,
                        !.state_current = m.state_error]
        cur == m1.state_current
    IN  [ m |-> m1,
          calls |-> IF cur # NULL /\ g[cur].action_entry # NULLFN
                    THEN << Call("entry", g[cur].action_entry, cur, 0,
                                 g[cur].data, event, NULL, m1) >>
                    ELSE << >> ]

(***************************************************************************)
(* get_transition: the for loop from index i on (1-based).  Returns the    *)
(* index of the transition found (0 for NULL) and the guard calls made.    *)
(***************************************************************************)
RECURSIVE get_transition_from(_, _, _, _, _)
get_transition_from(g, m, state, event, i) ==
    IF i > transition_nums(g[state])
    THEN [ idx |-> 0, calls |-> << >> ]
    ELSE LET t == g[state].transitions[i]
         IN  IF t.event_type = event.type
             THEN IF t.guard = NULLFN
                  THEN [ idx |-> i, calls |-> << >> ]
                  ELSE LET c == Call("guard", t.guard, state, i,
                                     t.condition, event, NULL, m)
                       IN  IF GuardResult(t.guard, t.condition, event)
                           THEN [ idx |-> i, calls |-> << c >> ]
                           ELSE LET r == get_transition_from(g, m, state, event, i + 1)
                                IN  [ idx |-> r.idx, calls |-> << c >> \o r.calls ]
             ELSE get_transition_from(g, m, state, event, i + 1)

\* (mutation: a guarded transition is taken whatever its guard returns)
RECURSIVE get_transition_ignoring_guard_from(_, _, _, _, _)
get_transition_ignoring_guard_from(g, m, state, event, i) ==
    IF i > transition_nums(g[state])
    THEN [ idx |-> 0, calls |-> << >> ]
    ELSE LET t == g[state].transitions[i]
         IN  IF t.event_type = event.type
             THEN IF t.guard = NULLFN
                  THEN [ idx |-> i, calls |-> << >> ]
                  ELSE [ idx |-> i,
                         calls |-> << Call("guard", t.guard, state, i,
                                           t.condition, event, NULL, m) >> ]
             ELSE get_transition_ignoring_guard_from(g, m, state, event, i + 1)

get_transition_ignoring_guard(g, m, state, event) ==
    IF state = NULL
    THEN [ idx |-> 0, calls |-> << >> ]
    ELSE get_transition_ignoring_guard_from(g, m, state, event, 1)

\* (mutation: the guard is called before the event type is compared)
RECURSIVE get_transition_guard_first_from(_, _, _, _, _)
get_transition_guard_first_from(g, m, state, event, i) ==
    IF i > transition_nums(g[state])
    THEN [ idx |-> 0, calls |-> << >> ]
    ELSE LET t == g[state].transitions[i]
         IN  IF t.guard = NULLFN
             THEN IF t.event_type = event.type
                  THEN [ idx |-> i, calls |-> << >> ]
                  ELSE get_transition_guard_first_from(g, m, state, event, i + 1)
             ELSE LET c == Call("guard", t.guard, state, i,
                                t.condition, event, NULL, m)
                  IN  IF /\ GuardResult(t.guard, t.condition, event)
                         /\ t.event_type = event.type
                      THEN [ idx |-> i, calls |-> << c >> ]
                      ELSE LET r == get_transition_guard_first_from(
                                        g, m, state, event, i + 1)
                           IN  [ idx |-> r.idx, calls |-> << c >> \o r.calls ]

get_transition_guard_first(g, m, state, event) ==
    IF state = NULL
    THEN [ idx |-> 0, calls |-> << >> ]
    ELSE get_transition_guard_first_from(g, m, state, event, 1)

get_transition(g, m, state, event) ==
    IF state = NULL
    THEN [ idx |-> 0, calls |-> << >> ]
    ELSE get_transition_from(g, m, state, event, 1)

(***************************************************************************)
(* statem_handle_event, the do/while lookup: from state_next upward along  *)
(* state_parent until a transition is found or the chain ends.  Returns    *)
(* the owning state and index of the transition (state = NULL: none).      *)
(***************************************************************************)
\* (mutation: only the current state's table is searched)
lookup_current_only(g, m, state_next, event) ==
    LET r == get_transition(g, m, state_next, event)
    IN  IF r.idx = 0
        THEN [ state |-> NULL, idx |-> 0, calls |-> r.calls ]
        ELSE [ state |-> state_next, idx |-> r.idx, calls |-> r.calls ]

\* line 74: the step of the do/while loop to the parent state
\* (mutation: the search stops when it comes back to the current state)
parent_step_until_current(g, m, state_next) ==
    IF g[state_next].state_parent = m.state_current
    THEN NULL
    ELSE g[state_next].state_parent

parent_step(g, m, state_next) == g[state_next].state_parent

\* (mutation: the table of a state without parent is searched only if the
\* state is the current one)
RECURSIVE lookup_below_root(_, _, _, _)
lookup_below_root(g, m, state_next, event) ==
    LET r == get_transition(g, m, state_next, event)
    IN  IF r.idx = 0
        THEN LET parent == g[state_next].state_parent
             IN  IF parent = NULL \/ g[parent].state_parent = NULL
                 THEN [ state |-> NULL, idx |-> 0, calls |-> r.calls ]
                 ELSE LET up == lookup_below_root(g, m, parent, event)
                      IN  [ up EXCEPT !.calls = r.calls \o up.calls ]
        ELSE [ state |-> state_next, idx |-> r.idx, calls |-> r.calls ]

RECURSIVE lookup(_, _, _, _)
lookup(g, m, state_next, event) ==
    LET r == get_transition(g, m, state_next, event)
    IN  IF r.idx = 0
        THEN LET parent == g[state_next].state_parent
             IN  IF parent = NULL
                 THEN [ state |-> NULL, idx |-> 0, calls |-> r.calls ]
                 ELSE LET up == lookup(g, m, parent, event)
                      IN  [ up EXCEPT !.calls = r.calls \o up.calls ]
        ELSE [ state |-> state_next, idx |-> r.idx, calls |-> r.calls ]

(***************************************************************************)
(* statem_handle_event, the entry-chain descent                             *)
(***************************************************************************)
\* (mutation: only one state_entry pointer is followed)
descend_one_step(g, state_next) ==
    IF g[state_next].state_entry # NULL
    THEN g[state_next].state_entry
    ELSE state_next

\* line 94: the step of the while loop to the entry state; first is the
\* state_next of the transition, where the loop started
\* (mutation: every round reads the entry state of the transition's target)
entry_step_from_first(g, first, state_next) == g[first].state_entry

entry_step(g, first, state_next) == g[state_next].state_entry

\* (mutation: the state named by the transition becomes the current state)
descend_not(g, state_next) == state_next

RECURSIVE descend(_, _)
descend(g, state_next) ==
    IF g[state_next].state_entry # NULL
    THEN descend(g, g[state_next].state_entry)
    ELSE state_next

\* the test of lines 59 and 134: no transitions and no parent
\* (mutation: the parent is not looked at, as in statem_stopped)
no_transitions(s) == transition_nums(s) = 0

no_transitions_no_parent(s) ==
    transition_nums(s) = 0 /\ s.state_parent = NULL

\* exit action of the current state, only if the state is left
\* (mutation: the exit action also runs when the state returns to itself)
exit_calls_always(g, m, state_next, event) ==
    LET cur == m.state_current
    IN  IF g[cur].action_exti # NULLFN
        THEN << Call("exit", g[cur].action_exti, cur, 0,
                     g[cur].data, event, NULL, m) >>
        ELSE << >>

exit_calls(g, m, state_next, event) ==
    LET cur == m.state_current
    IN  IF state_next # cur /\ g[cur].action_exti # NULLFN
        THEN << Call("exit", g[cur].action_exti, cur, 0,
                     g[cur].data, event, NULL, m) >>
        ELSE << >>

\* transition action, if any
\* (mutation: the action is given the data of the state that owns the
\* transition)
action_calls_owner_data(g, m, owner, idx, state_next, event) ==
    LET t == g[owner].transitions[idx]
    IN  IF t.action # NULLFN
        THEN << Call("action", t.action, owner, idx,
                     g[owner].data, event, g[state_next].data, m) >>
        ELSE << >>

action_calls(g, m, owner, idx, state_next, event) ==
    LET t == g[owner].transitions[idx]
    IN  IF t.action # NULLFN
        THEN << Call("action", t.action, owner, idx,
                     g[m.state_current].data, event, g[state_next].data, m) >>
        ELSE << >>

\* entry action of the new state, only if the state does not return to itself
\* (mutation: the new state is compared with state_previous)
entry_calls_unless_previous(g, m, state_next, event) ==
    IF state_next # m.state_previous /\ g[state_next].action_entry # NULLFN
    THEN << Call("entry", g[state_next].action_entry, state_next, 0,
                 g[state_next].data, event, NULL, m) >>
    ELSE << >>

entry_calls(g, m, state_next, event) ==
    IF state_next # m.state_current /\ g[state_next].action_entry # NULLFN
    THEN << Call("entry", g[state_next].action_entry, state_next, 0,
                 g[state_next].data, event, NULL, m) >>
    ELSE << >>

\* lines 97-115: exit action, then transition action, then entry action
\* (mutation: the transition action runs before the exit action)
transition_calls_action_first(g, m, owner, idx, state_next, event) ==
    action_calls(g, m, owner, idx, state_next, event)
        \o exit_calls(g, m, state_next, event)
        \o entry_calls(g, m, state_next, event)

\* (mutation: the state that owns the transition is left as well)
transition_calls_owner_exit(g, m, owner, idx, state_next, event) ==
    exit_calls(g, m, state_next, event)
        \o (IF owner # m.state_current /\ g[owner].action_exti # NULLFN
            THEN << Call("exit", g[owner].action_exti, owner, 0,
                         g[owner].data, event, NULL, m) >>
            ELSE << >>)
        \o action_calls(g, m, owner, idx, state_next, event)
        \o entry_calls(g, m, state_next, event)

transition_calls(g, m, owner, idx, state_next, event) ==
    exit_calls(g, m, state_next, event)
        \o action_calls(g, m, owner, idx, state_next, event)
        \o entry_calls(g, m, state_next, event)

\* the return value after state_previous/state_current have been updated
\* (mutation: the error state is tested before the return to itself)
classify_error_first(g, m) ==
    IF m.state_current = m.state_error THEN STATEM_ERR_STATE_RECHED
    ELSE IF m.state_current = m.state_previous THEN STATEM_STATE_LOOPSELF
    ELSE IF no_transitions_no_parent(g[m.state_current])
         THEN STATEM_FINAL_STATE_RECHED
    ELSE STATEM_STATE_CHANGED

classify(g, m) ==
    IF m.state_current = m.state_previous THEN STATEM_STATE_LOOPSELF
    ELSE IF m.state_current = m.state_error THEN STATEM_ERR_STATE_RECHED
    ELSE IF no_transitions_no_parent(g[m.state_current])
         THEN STATEM_FINAL_STATE_RECHED
    ELSE STATEM_STATE_CHANGED

NoTransition == [ state |-> NULL, idx |-> 0 ]

\* No call of statem_handle_event is in progress.
NoFrame == [ pc |-> "returned", state_next |-> NULL, first |-> NULL ]

Result(m, r, c, tr) == [ m |-> m, ret |-> r, calls |-> c, transition |-> tr ]

\* lines 79-139: a transition was found
\* (mutation: state_previous is not updated when the state changes)
take_transition_keeps_previous(g, m, found, event) ==
    LET t == g[found.state].transitions[found.idx]
        tr == [ state |-> found.state, idx |-> found.idx ]
    IN  IF t.state_next = NULL
        THEN LET e == go_to_state_error(g, m, event)
             IN  Result(e.m, STATEM_ERR_STATE_RECHED, found.calls \o e.calls, tr)
        ELSE LET state_next == descend(g, t.state_next)
                 cs == transition_calls(g, m, found.state, found.idx,
                                        state_next, event)
                 m1 == [m EXCEPT !.state_current = state_next]
                 m2 == [m1 EXCEPT !.state_previous = m.state_current]
             IN  Result(m1, classify(g, m2), found.calls \o cs, tr)

take_transition(g, m, found, event) ==
    LET t == g[found.state].transitions[found.idx]
        tr == [ state |-> found.state, idx |-> found.idx ]
    IN  IF t.state_next = NULL
        THEN LET e == go_to_state_error(g, m, event)
             IN  Result(e.m, STATEM_ERR_STATE_RECHED, found.calls \o e.calls, tr)
        ELSE LET state_next == descend(g, t.state_next)
                 cs == transition_calls(g, m, found.state, found.idx,
                                        state_next, event)
                 m1 == [m EXCEPT !.state_previous = m.state_current,
                                 !.state_current = state_next]
             IN  Result(m1, classify(g, m1), found.calls \o cs, tr)

(***************************************************************************)
(* statem_handle_event                                                     *)
(***************************************************************************)
\* line 47: the argument check
\* (mutation: only a call with both arguments null is rejected)
null_arguments_both(fsm_null, event) == fsm_null /\ event.null

null_arguments(fsm_null, event) == fsm_null \/ event.null

\* lines 61 and 142: return STATEM_STATE_NOCHANGE; cs are the guards called
\* (mutation: state_previous is updated before the lookup fails)
no_change_updates_previous(m, cs) ==
    Result([m EXCEPT !.state_previous = m.state_current],
           STATEM_STATE_NOCHANGE, cs, NoTransition)

no_change(m, cs) == Result(m, STATEM_STATE_NOCHANGE, cs, NoTransition)

statem_handle_event(g, m, fsm_null, event) ==
    IF null_arguments(fsm_null, event)
    THEN Result(m, STATEM_ERR_ARG, << >>, NoTransition)
    ELSE IF m.state_current = NULL
    THEN LET e == go_to_state_error(g, m, event)
         IN  Result(e.m, STATEM_ERR_STATE_RECHED, e.calls, NoTransition)
    ELSE IF no_transitions_no_parent(g[m.state_current])
    THEN no_change(m, << >>)
    ELSE LET found == lookup(g, m, m.state_current, event)
         IN  IF found.state = NULL
             THEN no_change(m, found.calls)
             ELSE take_transition(g, m, found, event)

(***************************************************************************)
(* statem_init                                                             *)
(***************************************************************************)
\* (mutation: state_previous is set to the initial state)
statem_init_previous_is_init(m, fsm_null, state_init, state_err) ==
    IF fsm_null
    THEN [ m |-> m, ret |-> -1 ]
    ELSE [ m |-> Machine(state_init, state_init, state_err), ret |-> 0 ]

\* (mutation: state_previous is left as it is)
statem_init_keeps_previous(m, fsm_null, state_init, state_err) ==
    IF fsm_null
    THEN [ m |-> m, ret |-> -1 ]
    ELSE [ m |-> Machine(state_init, m.state_previous, state_err), ret |-> 0 ]

statem_init(m, fsm_null, state_init, state_err) ==
    IF fsm_null
    THEN [ m |-> m, ret |-> -1 ]
    ELSE [ m |-> Machine(state_init, NULL, state_err), ret |-> 0 ]

(***************************************************************************)
(* statem_state_current, statem_state_previous, statem_stopped             *)
(***************************************************************************)
statem_state_current(m, fsm_null) ==
    IF fsm_null THEN NULL ELSE m.state_current

statem_state_previous(m, fsm_null) ==
    IF fsm_null THEN NULL ELSE m.state_previous

\* Reading transition_nums through a null state_current is undefined: the
\* call yields either value of the comparison, or it does not return and
\* has no state after it.
UndefinedRead == { 0, 1 }

\* The set of the results the call can have.
\* (mutation: a state with a parent is not reported as stopped, as in the
\* test of statem_handle_event)
statem_stopped_without_parent(g, m, fsm_null) ==
    IF fsm_null THEN { -1 }
    ELSE IF m.state_current = NULL THEN UndefinedRead
    ELSE { IF no_transitions_no_parent(g[m.state_current]) THEN 1 ELSE 0 }

statem_stopped(g, m, fsm_null) ==
    IF fsm_null THEN { -1 }
    ELSE IF m.state_current = NULL THEN UndefinedRead
    ELSE { IF transition_nums(g[m.state_current]) = 0 THEN 1 ELSE 0 }

(***************************************************************************)
(* The explored state graphs: three states, built around three base        *)
(* graphs; each family below lets one component of a base graph range over *)
(* all its values while the rest keeps its base value.                     *)
(***************************************************************************)
GraphStates == { 1, 2, 3 }
GuardChars == { 1, 2 }

\* Every transition record: an event type, no guard or keyboard_char_compare
\* with a condition, an action or none, a target state or NULL.
AllTransitions ==
    { Transition(ty, gc[2], gc[1], a, n) :
        ty \in { 0, 1 },
        gc \in { << NULLFN, NULL >> } \cup
               { << "keyboard_char_compare", c >> : c \in GuardChars },
        a \in { NULLFN, "print_msg_reset" },
        n \in GraphStates \cup { NULL } }

\* Acyclic parent chains (a parent has a lower identity) and acyclic entry
\* chains (an entry state has a higher identity).
ParentMaps ==
    { p \in [ GraphStates -> GraphStates \cup { NULL } ] :
        \A s \in GraphStates : p[s] = NULL \/ p[s] < s }
EntryMaps ==
    { e \in [ GraphStates -> GraphStates \cup { NULL } ] :
        \A s \in GraphStates : e[s] = NULL \/ e[s] > s }

Graph(parent, entry, tables, entries, exits) ==
    [ s \in GraphStates |->
        State(parent[s], entry[s], tables[s], 100 + s,
              IF s \in entries THEN "print_msg_enter" ELSE NULLFN,
              IF s \in exits THEN "print_msg_exit" ELSE NULLFN) ]

\* Base graphs: a group 1 with child and entry state 2 beside a state 3 of
\* its own; a nested chain 3 in 2 in 1 where 2 redirects to 3.
BaseParents == { << NULL, 1, NULL >>, << NULL, 1, 2 >> }
BaseEntry(parent) ==
    IF parent = << NULL, 1, NULL >>
    THEN << 2, NULL, NULL >>
    ELSE << NULL, 3, NULL >>

\* Base tables: state 1 resets on character 1 and has a catch-all to 3;
\* state 2 goes to 3 on character 2 and has a transition for event type 1
\* that lacks its next state; state 3 has no transitions.
BaseTables ==
    << << Transition(0, 1, "keyboard_char_compare", "print_msg_reset", 1),
          Transition(0, NULL, NULLFN, "print_msg_unrecognised_char", 3) >>,
       << Transition(0, 2, "keyboard_char_compare", NULLFN, 3),
          Transition(1, NULL, NULLFN, NULLFN, NULL) >>,
       << >> >>

\* One state's table is any table of at most one transition.
OneTransitionGraphs ==
    { Graph(p, BaseEntry(p), [ BaseTables EXCEPT ![s] = tb ],
            GraphStates, GraphStates) :
        p \in BaseParents, s \in GraphStates,
        tb \in { << >> } \cup { << t >> : t \in AllTransitions } }

\* One state's table is any table of two transitions for event types and
\* guards; the first leads to state 2, the second to state 3.
TwoTransitionGraphs ==
    { Graph(p, BaseEntry(p),
            [ BaseTables EXCEPT ![s] =
                << [ x[1] EXCEPT !.state_next = 2 ],
                   [ x[2] EXCEPT !.state_next = 3 ] >> ],
            GraphStates, GraphStates) :
        p \in BaseParents, s \in GraphStates,
        x \in { y \in AllTransitions \X AllTransitions :
                  /\ y[1].state_next = NULL /\ y[2].state_next = NULL
                  /\ y[1].action = NULLFN /\ y[2].action # NULLFN } }

\* Every hierarchy over the base tables.
HierarchyGraphs ==
    { Graph(p, e, BaseTables, GraphStates, GraphStates) :
        p \in ParentMaps, e \in EntryMaps }

\* Every choice of the states that have entry and exit actions.
CallbackGraphs ==
    { Graph(p, BaseEntry(p), BaseTables, entries, exits) :
        p \in { << NULL, 1, NULL >> },
        entries \in SUBSET GraphStates, exits \in SUBSET GraphStates }

Graphs ==
    OneTransitionGraphs \cup TwoTransitionGraphs \cup HierarchyGraphs
        \cup CallbackGraphs

(***************************************************************************)
(* The state machine                                                       *)
(***************************************************************************)
M == Machine(state_current, state_previous, state_error)

\* What the last call was given: its arguments, the machine it read, and
\* (for statem_handle_event) the transition it selected.
Last(op, fsm_null, event, m, tr) ==
    [ op |-> op, fsm_null |-> fsm_null, event |-> event, transition |-> tr,
      state_current |-> m.state_current, state_previous |-> m.state_previous,
      state_error |-> m.state_error,
      state_init |-> NULL, state_err |-> NULL ]

\* ... for statem_init, with the initial state and the error state given.
LastInit(fsm_null, state_init, state_err, m) ==
    [ Last("init", fsm_null, NullEvent, m, NoTransition)
        EXCEPT !.state_init = state_init, !.state_err = state_err ]

\* statem_init with a machine overwrites every field without reading any.
Unread == Machine(NULL, NULL, NULL)

\* The error state the caller designates for a graph: none, state 3, or
\* (for the hierarchies) any state.
ErrorStates(g) ==
    IF g \in HierarchyGraphs THEN DOMAIN g \cup { NULL } ELSE { NULL, 3 }

\* The caller builds a graph and initialises the machine.
Init ==
    /\ graph \in Graphs
    /\ \E state_init \in DOMAIN graph \cup { NULL },
          state_err \in ErrorStates(graph) :
          \E r \in { statem_init(Unread, FALSE, state_init, state_err) } :
              /\ state_current = r.m.state_current
              /\ state_previous = r.m.state_previous
              /\ state_error = r.m.state_error
              /\ ret = r.ret
              /\ last = LastInit(FALSE, state_init, state_err, Unread)
    /\ calls = << >>
    /\ frame = NoFrame

\* statem_init called again, with the graph's error state.
StatemInit ==
    \E fsm_null \in BOOLEAN, state_init \in DOMAIN graph \cup { NULL } :
        \E r \in { statem_init(M, fsm_null, state_init, state_error) } :
            /\ fsm_null => state_init = NULL
            /\ state_current' = r.m.state_current
            /\ state_previous' = r.m.state_previous
            /\ state_error' = r.m.state_error
            /\ ret' = r.ret
            /\ calls' = << >>
            /\ last' = LastInit(fsm_null, state_init, state_error, M)
            /\ UNCHANGED << graph, frame >>

\* The arguments of statem_handle_event: a machine with any event or a null
\* event, and a null machine with an event or a null event.
HandleEventArgs ==
    { << FALSE, e >> : e \in Events \cup { NullEvent } }
        \cup { << TRUE, Event(0, 1) >>, << TRUE, NullEvent >> }

HandleEvent(fsm_null, event) ==
    \E r \in { statem_handle_event(graph, M, fsm_null, event) } :
        /\ state_current' = r.m.state_current
        /\ state_previous' = r.m.state_previous
        /\ state_error' = r.m.state_error
        /\ ret' = r.ret
        /\ calls' = r.calls
        /\ last' = Last("handle_event", fsm_null, event, M, r.transition)
        /\ UNCHANGED << graph, frame >>

StatemHandleEvent ==
    \E args \in HandleEventArgs : HandleEvent(args[1], args[2])

\* statem_stopped with a machine or without one.
StatemStopped ==
    \E fsm_null \in BOOLEAN :
        \E r \in statem_stopped(graph, M, fsm_null) :
            /\ ret' = r
            /\ calls' = << >>
            /\ last' = Last("stopped", fsm_null, NullEvent, M, NoTransition)
            /\ UNCHANGED << graph, state_current, state_previous, state_error,
                            frame >>

Next == StatemInit \/ StatemHandleEvent \/ StatemStopped

Spec == Init /\ [][Next]_vars

(***************************************************************************)
(* The post example (examples/post_state.c): the thread state_process      *)
(* initialises the machine in state_root and passes it every event of the  *)
(* message queue.                                                          *)
(***************************************************************************)
state_root == 1
state_post == 2
state_postpass == 3
state_postfail == 4
state_postbreak == 5
post_state_error == 6

PostGraph ==
    << State(NULL, NULL,
             << Transition(EVENT_POST_START, NULL, NULLFN, NULLFN, state_post) >>,
             "ROOT", "print_msg_enter", "print_msg_exit"),
       State(NULL, NULL,
             << Transition(EVENT_POST_BREAKON, NULL, NULLFN,
                           "action_post_break", state_postbreak),
                Transition(EVENT_POST_ANSWER, 1, "guard_post_fail",
                           "action_post_fail", state_postfail),
                Transition(EVENT_POST_ANSWER, 2, "guard_post_pass",
                           "action_post_pass", state_postpass) >>,
             "POST", "state_post_enter", "print_msg_exit"),
       State(NULL, NULL, << >>, "POSTPASS", "print_msg_enter", "print_msg_exit"),
       State(NULL, NULL, << >>, "POSTFAIL", "print_msg_enter", "print_msg_exit"),
       State(NULL, NULL,
             << Transition(EVENT_POST_BREAKOFF, NULL, NULLFN, NULLFN, state_post) >>,
             "POSTBREAK", "print_msg_enter", "print_msg_exit"),
       State(NULL, NULL, << >>, "ERROR", "print_msg_err", NULLFN) >>

\* The events state_post_event_set can queue: a type below EVENT_POST_NUMS
\* and a payload 0 .. MaxAnswer.
MaxAnswer == 3
PostEvents ==
    { Event(t, d) : t \in EVENT_POST_NULL .. EVENT_POST_NUMS - 1,
                    d \in 0 .. MaxAnswer }

PostInit ==
    /\ graph = PostGraph
    /\ \E r \in { statem_init(Unread, FALSE, state_root, post_state_error) } :
          /\ state_current = r.m.state_current
          /\ state_previous = r.m.state_previous
          /\ state_error = r.m.state_error
          /\ ret = r.ret
          /\ last = LastInit(FALSE, state_root, post_state_error, Unread)
    /\ calls = << >>
    /\ frame = NoFrame

\* one round of the loop of state_process that received an event
PostProcess == \E e \in PostEvents : HandleEvent(FALSE, e)

PostNext == PostProcess

PostSpec == PostInit /\ [][PostNext]_vars

(***************************************************************************)
(* The keyboard example (examples/state_machine_example.c): the thread     *)
(* state_process initialises the machine in state_idle and passes it a     *)
(* keyboard event for every character of the mailbox.                      *)
(***************************************************************************)
state_charsgroup_check == 1
state_idle == 2
state_h == 3
state_i == 4
state_a == 5
keyboard_state_error == 6

\* Characters are their codes: '!' 33, 'a' 97, 'h' 104, 'i' 105, 'n' 110.
KeyboardGraph ==
    << State(NULL, state_idle,
             << Transition(EVENT_KEYBOARD, 33, "keyboard_char_compare",
                           "print_msg_reset", state_idle),
                Transition(EVENT_KEYBOARD, NULL, NULLFN,
                           "print_msg_unrecognised_char", state_idle) >>,
             "group", "print_msg_enter", "print_msg_exit"),
       State(state_charsgroup_check, NULL,
             << Transition(EVENT_KEYBOARD, 104, "keyboard_char_compare",
                           NULLFN, state_h) >>,
             "idle", "print_msg_enter", "print_msg_exit"),
       State(state_charsgroup_check, NULL,
             << Transition(EVENT_KEYBOARD, 97, "keyboard_char_compare",
                           NULLFN, state_a),
                Transition(EVENT_KEYBOARD, 105, "keyboard_char_compare",
                           NULLFN, state_i) >>,
             "H", "print_msg_recognised_char", "print_msg_exit"),
       State(state_charsgroup_check, NULL,
             << Transition(EVENT_KEYBOARD, 110, "keyboard_char_compare",
                           "print_msg_hi", state_idle) >>,
             "I", "print_msg_recognised_char", "print_msg_exit"),
       State(state_charsgroup_check, NULL,
             << Transition(EVENT_KEYBOARD, 110, "keyboard_char_compare",
                           "print_msg_ha", state_idle) >>,
             "A", "print_msg_recognised_char", "print_msg_exit"),
       State(NULL, NULL,
             << Transition(EVENT_KEYBOARD, 105, "keyboard_char_compare",
                           NULLFN, state_i) >>,
             "Error", "print_msg_err", NULLFN) >>

\* The characters of the mailbox: the five the graph names and MaxOther
\* others from 'x' (120) on.
MaxOther == 8
KeyboardChars == { 33, 97, 104, 105, 110 } \cup (120 .. 119 + MaxOther)

KeyboardInit ==
    /\ graph = KeyboardGraph
    /\ \E r \in { statem_init(Unread, FALSE, state_idle, keyboard_state_error) } :
          /\ state_current = r.m.state_current
          /\ state_previous = r.m.state_previous
          /\ state_error = r.m.state_error
          /\ ret = r.ret
          /\ last = LastInit(FALSE, state_idle, keyboard_state_error, Unread)
    /\ calls = << >>
    /\ frame = NoFrame

\* one round of the loop of state_process that received a character
KeyboardProcess ==
    \E ch \in KeyboardChars : HandleEvent(FALSE, Event(EVENT_KEYBOARD, ch))

KeyboardNext == KeyboardProcess

KeyboardSpec == KeyboardInit /\ [][KeyboardNext]_vars

(***************************************************************************)
(* statem_handle_event round by round: one step per round of the do/while  *)
(* loop (lines 65-140) and of the entry loop (lines 92-95), over graphs    *)
(* whose parent pointers or entry pointers may form cycles.  Here calls    *)
(* holds the callbacks of the last step only.                              *)
(***************************************************************************)
\* Every assignment of parent or entry pointers, cyclic ones included.
LoopMaps == [ GraphStates -> GraphStates \cup { NULL } ]
NoPointers == [ s \in GraphStates |-> NULL ]

\* Any parent pointers over few entry pointers, and any entry pointers over
\* few parent pointers, with the base tables.
LoopGraphs ==
    { Graph(p, e, BaseTables, GraphStates, GraphStates) :
        p \in LoopMaps, e \in { NoPointers, << 2, NULL, NULL >> } }
    \cup
    { Graph(p, e, BaseTables, GraphStates, GraphStates) :
        p \in BaseParents \cup { NoPointers }, e \in LoopMaps }

LoopInit ==
    /\ graph \in LoopGraphs
    /\ \E state_init \in DOMAIN graph, state_err \in { NULL, 3 } :
          \E r \in { statem_init(Unread, FALSE, state_init, state_err) } :
              /\ state_current = r.m.state_current
              /\ state_previous = r.m.state_previous
              /\ state_error = r.m.state_error
              /\ ret = r.ret
              /\ last = LastInit(FALSE, state_init, state_err, Unread)
    /\ calls = << >>
    /\ frame = NoFrame

\* The call returns r: the machine, the return value, the last callbacks.
LoopReturn(r) ==
    /\ state_current' = r.m.state_current
    /\ state_previous' = r.m.state_previous
    /\ state_error' = r.m.state_error
    /\ ret' = r.ret
    /\ calls' = r.calls
    /\ frame' = NoFrame

\* The call goes on at position pc with the cursor state_next.
LoopGoOn(pc, state_next, first, cs) ==
    /\ frame' = [ pc |-> pc, state_next |-> state_next, first |-> first ]
    /\ calls' = cs
    /\ UNCHANGED << state_current, state_previous, state_error, ret >>

\* lines 47-63: the call with a machine and an event, up to the loop
LoopCall ==
    /\ frame.pc = "returned"
    /\ \E event \in Events :
          /\ last' = Last("handle_event", FALSE, event, M, NoTransition)
          /\ IF state_current = NULL
             THEN \E e \in { go_to_state_error(graph, M, event) } :
                      LoopReturn(Result(e.m, STATEM_ERR_STATE_RECHED, e.calls,
                                        NoTransition))
             ELSE IF no_transitions_no_parent(graph[state_current])
             THEN LoopReturn(no_change(M, << >>))
             ELSE LoopGoOn("lookup", state_current, NULL, << >>)
    /\ UNCHANGED graph

\* lines 65-86 and 140: one round of the do/while loop
LoopLookup ==
    /\ frame.pc = "lookup"
    /\ \E r \in { get_transition(graph, M, frame.state_next, last.event) } :
          IF r.idx = 0
          THEN /\ \E up \in { parent_step(graph, M, frame.state_next) } :
                      IF up = NULL
                      THEN LoopReturn(no_change(M, r.calls))
                      ELSE LoopGoOn("lookup", up, NULL, r.calls)
               /\ UNCHANGED last
          ELSE /\ last' = [ last EXCEPT !.transition =
                              [ state |-> frame.state_next, idx |-> r.idx ] ]
               /\ \E t \in { graph[frame.state_next].transitions[r.idx] } :
                      IF t.state_next = NULL
                      THEN \E e \in { go_to_state_error(graph, M, last.event) } :
                               LoopReturn(Result(e.m, STATEM_ERR_STATE_RECHED,
                                                 r.calls \o e.calls, NoTransition))
                      ELSE LoopGoOn("descend", t.state_next, t.state_next,
                                    r.calls)
    /\ UNCHANGED graph

\* lines 92-139: one round of the entry loop, or what follows the loop
LoopDescend ==
    /\ frame.pc = "descend"
    /\ IF graph[frame.state_next].state_entry # NULL
       THEN LoopGoOn("descend",
                     entry_step(graph, frame.first, frame.state_next),
                     frame.first, << >>)
       ELSE \E m1 \in { [ M EXCEPT !.state_previous = state_current,
                                   !.state_current = frame.state_next ] } :
                LoopReturn(Result(m1, classify(graph, m1),
                                  transition_calls(graph, M,
                                                   last.transition.state,
                                                   last.transition.idx,
                                                   frame.state_next, last.event),
                                  NoTransition))
    /\ UNCHANGED << graph, last >>

LoopNext == LoopCall \/ LoopLookup \/ LoopDescend

LoopSpec == LoopInit /\ [][LoopNext]_vars

\* A call that has begun goes on: the rounds of its loops are executed one
\* after the other, nothing in the code waits.
LoopFairSpec == LoopSpec /\ WF_vars(LoopLookup) /\ WF_vars(LoopDescend)

(***************************************************************************)
(* Vocabulary of the properties                                            *)
(***************************************************************************)
\* The last call was statem_handle_event with a machine and an event.
Dispatched == last.op = "handle_event" /\ ~last.fsm_null /\ ~last.event.null

\* ... and its lookup selected a transition.
Matched == Dispatched /\ last.transition.state # NULL
Taken == graph[last.transition.state].transitions[last.transition.idx]

\* The state without state_entry at the end of the state_entry path from s.
EntryPath(p) == \A i \in 1 .. Len(p) - 1 : graph[p[i]].state_entry = p[i + 1]
EntryLeaf(s) ==
    CHOOSE l \in DOMAIN graph :
        /\ graph[l].state_entry = NULL
        /\ \E k \in 1 .. Cardinality(DOMAIN graph) :
             \E p \in [ 1 .. k -> DOMAIN graph ] :
                p[1] = s /\ p[k] = l /\ EntryPath(p)

\* The resolved target of the selected transition.
Resolved == Matched /\ Taken.state_next # NULL
Target == EntryLeaf(Taken.state_next)

\* The actions (everything but guards) the last call invoked, in order.
Callbacks == SelectSeq(calls, LAMBDA c : c.kind # "guard")
Invoked(kind) == SelectSeq(calls, LAMBDA c : c.kind = kind)
Signature(cs) == [ i \in DOMAIN cs |-> << cs[i].kind, cs[i].state, cs[i].idx >> ]

(***************************************************************************)
(* C1                                                                      *)
(***************************************************************************)
\* C1: when the selected transition's resolved target differs from the
\* current state, the actions invoked are exactly: the current state's exit
\* action if it has one, then the transition's action if it has one, then
\* the target's entry action if it has one; each runs while state_current
\* and state_previous still hold their values from before the call, and
\* only afterwards the target becomes the current state.
C1_CallbackOrder ==
    (Resolved /\ Target # last.state_current) =>
        LET cur == last.state_current
            expected ==
                (IF graph[cur].action_exti # NULLFN
                    THEN << << "exit", cur, 0 >> >> ELSE << >>)
                \o (IF Taken.action # NULLFN
                    THEN << << "action", last.transition.state,
                               last.transition.idx >> >> ELSE << >>)
                \o (IF graph[Target].action_entry # NULLFN
                    THEN << << "entry", Target, 0 >> >> ELSE << >>)
        IN  /\ Signature(Callbacks) = expected
            /\ \A i \in DOMAIN Callbacks :
                 /\ Callbacks[i].state_current = cur
                 /\ Callbacks[i].state_previous = last.state_previous
            /\ state_current = Target
            /\ state_previous = cur

\* an ancestor's transition leaves the current state and all three actions run
C1_Witness ==
    /\ Resolved /\ Target # last.state_current
    /\ last.transition.state # last.state_current
    /\ Len(Callbacks) = 3

(***************************************************************************)
(* C2                                                                      *)
(***************************************************************************)
\* C2: when the selected transition's resolved target is the current state,
\* no exit action and no entry action is invoked, the transition's action is
\* invoked exactly once if it has one, and the call returns
\* STATEM_STATE_LOOPSELF.
C2_SelfLoop ==
    (Resolved /\ Target = last.state_current) =>
        /\ Invoked("exit") = << >>
        /\ Invoked("entry") = << >>
        /\ Signature(Invoked("action")) =
             IF Taken.action # NULLFN
             THEN << << "action", last.transition.state,
                        last.transition.idx >> >>
             ELSE << >>
        /\ ret = STATEM_STATE_LOOPSELF
        /\ state_current = last.state_current

\* an ancestor's transition to a group is redirected back to the current
\* state, which has both an exit and an entry action
C2_Witness ==
    /\ Resolved /\ Target = last.state_current
    /\ last.transition.state # last.state_current
    /\ Taken.state_next # last.state_current
    /\ Taken.action # NULLFN
    /\ graph[last.state_current].action_exti # NULLFN
    /\ graph[last.state_current].action_entry # NULLFN
    /\ ret = STATEM_STATE_LOOPSELF

\* the same with the transition in the current state's own table
C2_WitnessOwnTable ==
    /\ Resolved /\ Target = last.state_current
    /\ last.transition.state = last.state_current
    /\ graph[last.state_current].action_exti # NULLFN
    /\ ret = STATEM_STATE_LOOPSELF

(***************************************************************************)
(* C3, C4                                                                  *)
(***************************************************************************)
\* Entry j of state s's table matches the event of the last call: its
\* event_type is the event's type and it has no guard or its guard holds.
Matches(s, j) ==
    LET t == graph[s].transitions[j]
    IN  /\ t.event_type = last.event.type
        /\ t.guard = NULLFN \/ GuardResult(t.guard, t.condition, last.event)
MatchSet(s) == { j \in 1 .. Len(graph[s].transitions) : Matches(s, j) }
Min(S) == CHOOSE x \in S : \A y \in S : x <= y

\* C3: the transition selected in a state's table is the lowest-index entry
\* that matches; so an unguarded entry ahead of a guarded one for the same
\* event type is taken whatever the guard would return, and a guarded entry
\* whose guard fails lets a later entry be taken.
C3_TableOrder ==
    /\ Matched =>
         /\ MatchSet(last.transition.state) # {}
         /\ last.transition.idx = Min(MatchSet(last.transition.state))
    /\ (Dispatched /\ last.state_current # NULL
          /\ MatchSet(last.state_current) # {}) =>
         /\ last.transition.state = last.state_current
         /\ last.transition.idx = Min(MatchSet(last.state_current))

\* an unguarded first entry wins over a guarded second entry for the same
\* event type whose guard holds for the event
C3_Witness ==
    /\ Matched
    /\ last.transition.idx = 1
    /\ Taken.guard = NULLFN
    /\ Len(graph[last.transition.state].transitions) = 2
    /\ graph[last.transition.state].transitions[2].guard # NULLFN
    /\ Matches(last.transition.state, 2)

\* a guarded first entry for the event's type fails and the second is taken
C3_WitnessFallThrough ==
    /\ Matched
    /\ last.transition.idx = 2
    /\ graph[last.transition.state].transitions[1].event_type = last.event.type
    /\ graph[last.transition.state].transitions[1].guard # NULLFN

\* The chain of a state and its ancestors, nearest first.
ParentPath(p) ==
    /\ \A i \in 1 .. Len(p) - 1 : graph[p[i]].state_parent = p[i + 1]
    /\ graph[p[Len(p)]].state_parent = NULL
ParentChain(s) ==
    CHOOSE p \in UNION { [ 1 .. k -> DOMAIN graph ] :
                           k \in 1 .. Cardinality(DOMAIN graph) } :
        p[1] = s /\ ParentPath(p)

\* C4: the transition taken is the first matching entry of the nearest
\* state, among the current state and its ancestors, whose table has a
\* matching entry; when no table on the chain has one, the call returns
\* STATEM_STATE_NOCHANGE.
C4_ParentChain ==
    (Dispatched /\ last.state_current # NULL) =>
        LET chain == ParentChain(last.state_current)
            hits == { k \in DOMAIN chain : MatchSet(chain[k]) # {} }
        IN  IF hits = {}
            THEN /\ ret = STATEM_STATE_NOCHANGE
                 /\ last.transition = NoTransition
            ELSE /\ last.transition.state = chain[Min(hits)]
                 /\ last.transition.idx = Min(MatchSet(chain[Min(hits)]))
                 /\ ret # STATEM_STATE_NOCHANGE

\* the parent's match is taken although the grandparent's table matches too
C4_Witness ==
    /\ Matched
    /\ graph[last.state_current].state_parent = last.transition.state
    /\ graph[last.transition.state].state_parent # NULL
    /\ MatchSet(graph[last.transition.state].state_parent) # {}

\* the chain of two ancestors is searched to its end without a match
C4_WitnessExhausted ==
    /\ Dispatched /\ last.state_current # NULL
    /\ Len(ParentChain(last.state_current)) = 3
    /\ ret = STATEM_STATE_NOCHANGE

(***************************************************************************)
(* C5                                                                      *)
(***************************************************************************)
\* C5: whenever statem_handle_event returns STATEM_STATE_NOCHANGE,
\* state_current, state_previous and state_error are what they were before
\* the call and no entry, exit or transition action has been invoked.
C5_NoChangeFrame ==
    (last.op = "handle_event" /\ ret = STATEM_STATE_NOCHANGE) =>
        /\ state_current = last.state_current
        /\ state_previous = last.state_previous
        /\ state_error = last.state_error
        /\ Callbacks = << >>
        /\ last.transition = NoTransition

\* a lookup that called a guard and climbed to a parent ends without a
\* match, in a machine that had made a transition before
C5_Witness ==
    /\ last.op = "handle_event" /\ ret = STATEM_STATE_NOCHANGE
    /\ Invoked("guard") # << >>
    /\ graph[last.state_current].state_parent # NULL
    /\ last.state_previous # NULL
    /\ last.state_previous # last.state_current

\* the current state is terminal: no transitions and no parent
C5_WitnessTerminal ==
    /\ last.op = "handle_event" /\ ret = STATEM_STATE_NOCHANGE
    /\ no_transitions_no_parent(graph[last.state_current])
    /\ last.state_previous # last.state_current

(***************************************************************************)
(* C6                                                                      *)
(***************************************************************************)
\* C6: after a selected transition with a next state, state_current is the
\* state at the end of the state_entry path from that next state, it has no
\* state_entry, and the descent applied to it again yields the same state.
C6_EntryDescent ==
    Resolved =>
        /\ state_current = Target
        /\ graph[state_current].state_entry = NULL
        /\ descend(graph, Taken.state_next) = state_current
        /\ descend(graph, state_current) = state_current

\* the next state is a group whose entry state is a group again
C6_Witness ==
    /\ Resolved
    /\ graph[Taken.state_next].state_entry # NULL
    /\ graph[graph[Taken.state_next].state_entry].state_entry # NULL
    /\ state_current # last.state_current

(***************************************************************************)
(* C7                                                                      *)
(***************************************************************************)
\* The selected transition has no next state.
Malformed == Matched /\ Taken.state_next = NULL

\* The entry action of the error state, run with the machine already in the
\* error state: what both error paths are to invoke, if anything.
ErrorEntry ==
    IF last.state_error # NULL /\ graph[last.state_error].action_entry # NULLFN
    THEN << [ kind |-> "entry", fn |-> graph[last.state_error].action_entry,
              state |-> last.state_error, idx |-> 0,
              arg1 |-> graph[last.state_error].data, event |-> last.event,
              arg3 |-> NULL, state_current |-> last.state_error,
              state_previous |-> last.state_current ] >>
    ELSE << >>

\* C7 as amended: when the selected transition has no next state, the call
\* returns STATEM_ERR_STATE_RECHED, state_current is state_error,
\* state_previous is the state that was current before the call, and the
\* only action invoked is the error state's entry action, once, if the
\* error state is not null and has an entry action (none otherwise); also
\* when the current state already is the error state.
C7_NullNextState ==
    Malformed =>
        /\ ret = STATEM_ERR_STATE_RECHED
        /\ state_current = last.state_error
        /\ state_previous = last.state_current
        /\ state_error = last.state_error
        /\ Callbacks = ErrorEntry

\* the machine is in the error state and takes a transition without next
\* state: the error state is entered again
C7_Witness ==
    /\ Malformed
    /\ last.state_current = last.state_error
    /\ Len(Invoked("entry")) = 1

\* C7 as stated, for a machine that has an error state: the error state's
\* entry action is invoked exactly once whenever the selected transition has
\* no next state.
C7_AsStated ==
    (Malformed /\ last.state_error # NULL) =>
        /\ ret = STATEM_ERR_STATE_RECHED
        /\ state_current = last.state_error
        /\ state_previous = last.state_current
        /\ Len(Invoked("entry")) = 1
        /\ Invoked("entry")[1].state = last.state_error

(***************************************************************************)
(* C8                                                                      *)
(***************************************************************************)
\* C8: called with a machine whose state_current is null (and an event),
\* statem_handle_event makes state_error the current state, invokes the
\* error state's entry action once with the error state's data and the
\* event if there is one, invokes nothing else (no guard either), selects
\* no transition and returns STATEM_ERR_STATE_RECHED.
C8_NullCurrent ==
    (Dispatched /\ last.state_current = NULL) =>
        /\ ret = STATEM_ERR_STATE_RECHED
        /\ state_current = last.state_error
        /\ state_error = last.state_error
        /\ calls = ErrorEntry
        /\ last.transition = NoTransition

\* a machine initialised without initial state enters its error state
C8_Witness ==
    /\ Dispatched /\ last.state_current = NULL
    /\ state_current # NULL
    /\ Len(calls) = 1
    /\ calls[1].arg1 = graph[state_current].data
    /\ calls[1].event = last.event

(***************************************************************************)
(* C9                                                                      *)
(***************************************************************************)
\* C9: statem_handle_event with a null machine or a null event returns
\* STATEM_ERR_ARG, a negative value that no other return code has, leaves
\* state_current, state_previous and state_error as they were and invokes
\* no guard and no action.
C9_ArgumentError ==
    (last.op = "handle_event" /\ (last.fsm_null \/ last.event.null)) =>
        /\ ret = STATEM_ERR_ARG
        /\ ret < 0
        /\ \A v \in { STATEM_ERR_STATE_RECHED, STATEM_STATE_CHANGED,
                      STATEM_STATE_LOOPSELF, STATEM_STATE_NOCHANGE,
                      STATEM_FINAL_STATE_RECHED } : v # ret
        /\ state_current = last.state_current
        /\ state_previous = last.state_previous
        /\ state_error = last.state_error
        /\ calls = << >>

\* a null event for a machine whose current state has a transition that an
\* event of type 0 would take
C9_Witness ==
    /\ last.op = "handle_event" /\ ~last.fsm_null /\ last.event.null
    /\ last.state_current # NULL
    /\ last.state_previous # NULL
    /\ \E j \in 1 .. Len(graph[last.state_current].transitions) :
          /\ graph[last.state_current].transitions[j].event_type = 0
          /\ graph[last.state_current].transitions[j].guard = NULLFN
    /\ ret = STATEM_ERR_ARG

C10_WitnessTerminalError ==
    /\ Resolved
    /\ Target # last.state_current
    /\ Target = last.state_error
    /\ graph[Target].transitions = << >>
    /\ graph[Target].state_parent = NULL
    /\ ret = STATEM_ERR_STATE_RECHED

\* a terminal state that is not the error state
C10_WitnessFinal ==
    Resolved /\ ret = STATEM_FINAL_STATE_RECHED

\* No transition is ever selected while the current state is terminal (the
\* call returns before the lookup), so the return to itself of a terminal
\* state does not arise.
C10_TerminalNeverLoops ==
    ~ ( /\ Matched
        /\ graph[last.state_current].transitions = << >>
        /\ graph[last.state_current].state_parent = NULL )

(***************************************************************************)
(* C11                                                                     *)
(***************************************************************************)
\* A state with an empty transition table and no parent.
Terminal(s) == graph[s].transitions = << >> /\ graph[s].state_parent = NULL

\* C11 as amended: a transition whose resolved target is a terminal state
\* other than the error state returns STATEM_FINAL_STATE_RECHED, and
\* STATEM_FINAL_STATE_RECHED is returned only by such a call, which makes
\* the terminal state current from another state; every later call with a
\* machine and an event while a terminal state is current returns
\* STATEM_STATE_NOCHANGE, invokes nothing and leaves the state current, so
\* the code is not returned again before statem_init.
C11_FinalOnce ==
    /\ (Resolved /\ Terminal(Target) /\ Target # last.state_error) =>
          ret = STATEM_FINAL_STATE_RECHED
    /\ (last.op = "handle_event" /\ ret = STATEM_FINAL_STATE_RECHED) =>
          /\ Resolved
          /\ state_current = Target
          /\ Terminal(state_current)
          /\ state_current # last.state_current
          /\ state_current # state_error
    /\ (Dispatched /\ last.state_current # NULL
          /\ Terminal(last.state_current)) =>
          /\ ret = STATEM_STATE_NOCHANGE
          /\ calls = << >>
          /\ state_current = last.state_current
          /\ state_previous = last.state_previous

\* an event for a terminal state that a transition had made current
C11_Witness ==
    /\ Dispatched /\ last.state_current # NULL
    /\ Terminal(last.state_current)
    /\ last.state_current # last.state_error
    /\ last.state_previous # NULL
    /\ ret = STATEM_STATE_NOCHANGE

\* a terminal state reached through a group's state_entry
C11_WitnessReached ==
    /\ Resolved /\ Terminal(Target)
    /\ Taken.state_next # Target
    /\ ret = STATEM_FINAL_STATE_RECHED

\* C11 as stated: every transition that makes a terminal state current
\* returns STATEM_FINAL_STATE_RECHED.
C11_AsStated ==
    (Resolved /\ Terminal(Target) /\ Target # last.state_current) =>
        ret = STATEM_FINAL_STATE_RECHED

(***************************************************************************)
(* C12, C13, C14                                                           *)
(***************************************************************************)
\* A final state as the header defines it: its transition_nums is 0.
Final(s) == Len(graph[s].transitions) = 0

\* The machine the last call was given.
PreMachine ==
    Machine(last.state_current, last.state_previous, last.state_error)

\* C12: every statem_handle_event call with an event while the current
\* state has no transitions returns STATEM_STATE_NOCHANGE, whether or not
\* the state has a parent.
C12_FinalStateNoChange ==
    (Dispatched /\ last.state_current # NULL /\ Final(last.state_current)) =>
        ret = STATEM_STATE_NOCHANGE

C13_WitnessDispatch ==
    /\ Dispatched /\ last.state_current # NULL
    /\ Final(last.state_current)
    /\ graph[last.state_current].state_parent # NULL
    /\ ret = STATEM_STATE_CHANGED
    /\ state_current # last.state_current

\* C14: statem_stopped returns true (a value other than 0) if the current
\* state is a final state, and false (0) if the machine is null or the
\* current state is not a final state; stated for the calls that do not
\* read through a null state_current.
C14_StoppedAsDocumented ==
    (last.op = "stopped" /\ (last.fsm_null \/ state_current # NULL)) =>
        (ret # 0 <=> (~last.fsm_null /\ Final(state_current)))

(***************************************************************************)
(* C15, C16                                                                *)
(***************************************************************************)
\* C15: statem_init with a machine makes the given initial state the
\* current state as it is, also when it has a state_entry, sets
\* state_previous to null and state_error to the given error state and
\* invokes nothing; with a null machine it returns a negative value and
\* changes nothing.
C15_Init ==
    /\ (last.op = "init" /\ ~last.fsm_null) =>
          /\ state_current = last.state_init
          /\ state_previous = NULL
          /\ state_error = last.state_err
          /\ calls = << >>
          /\ ret = 0
    /\ (last.op = "init" /\ last.fsm_null) =>
          /\ ret < 0
          /\ M = PreMachine
          /\ calls = << >>

\* a machine that has made a transition is initialised again with a group
\* state that has an entry action
C15_Witness ==
    /\ last.op = "init" /\ ~last.fsm_null
    /\ last.state_previous # NULL
    /\ last.state_init # NULL
    /\ graph[last.state_init].state_entry # NULL
    /\ graph[last.state_init].action_entry # NULLFN
    /\ state_current = last.state_init

\* statem_init without a machine
C15_WitnessNull ==
    /\ last.op = "init" /\ last.fsm_null
    /\ state_current # NULL /\ state_previous # NULL

\* The machine a first statem_init with the arguments of the last call
\* yields.
Fresh == statem_init(Unread, FALSE, last.state_init, last.state_err)

\* C16: statem_init with a machine leaves, whatever the machine was, the
\* machine and the return value of a first initialisation with the same
\* arguments, and so does calling it once more; and a statem_handle_event
\* call that follows it has the result, the callbacks and the machine that
\* the call has on a machine just initialised with these arguments.
C16_Reset ==
    /\ [] ( (last.op = "init" /\ ~last.fsm_null) =>
              /\ M = Fresh.m
              /\ ret = Fresh.ret
              /\ statem_init(M, FALSE, last.state_init, last.state_err)
                   = Fresh )
    /\ [][ (last.op = "init" /\ ~last.fsm_null /\ last'.op = "handle_event") =>
              \E r \in { statem_handle_event(graph, Fresh.m, last'.fsm_null,
                                             last'.event) } :
                  /\ state_current' = r.m.state_current
                  /\ state_previous' = r.m.state_previous
                  /\ state_error' = r.m.state_error
                  /\ ret' = r.ret
                  /\ calls' = r.calls ]_vars

\* a machine whose terminal current state a transition had reached is
\* initialised again with another state
C16_Witness ==
    /\ last.op = "init" /\ ~last.fsm_null
    /\ last.state_current # NULL
    /\ Terminal(last.state_current)
    /\ last.state_previous # NULL
    /\ state_current # NULL
    /\ state_current # last.state_current
    /\ graph[state_current].transitions # << >>

\* the same for a machine that was in its error state
C16_WitnessError ==
    /\ last.op = "init" /\ ~last.fsm_null
    /\ last.state_current # NULL
    /\ last.state_current = last.state_error
    /\ last.state_previous # NULL
    /\ state_current # last.state_current

(***************************************************************************)
(* C17                                                                     *)
(***************************************************************************)
\* The return values of a call that takes no transition.
Quiet == { STATEM_ERR_ARG, STATEM_STATE_NOCHANGE }

\* C17: statem_init with a machine leaves state_previous, and what
\* statem_state_previous returns, null; a statem_handle_event call that
\* returns STATEM_ERR_ARG or STATEM_STATE_NOCHANGE, and a statem_stopped
\* call, keep a null state_previous null; and the statem_handle_event
\* call that takes a transition while state_previous is null makes
\* state_previous the state that was current before it.
C17_PreviousNull ==
    /\ [] ( (last.op = "init" /\ ~last.fsm_null) =>
              /\ state_previous = NULL
              /\ statem_state_previous(M, FALSE) = NULL )
    /\ [][ (state_previous = NULL /\ last'.op = "handle_event"
              /\ ret' \in Quiet) =>
              /\ state_previous' = NULL
              /\ statem_state_previous(M, FALSE)' = NULL ]_vars
    /\ [][ (state_previous = NULL /\ last'.op = "stopped") =>
              state_previous' = NULL ]_vars
    /\ [][ (state_previous = NULL /\ last'.op = "handle_event"
              /\ ret' \notin Quiet) =>
              /\ state_previous' = state_current
              /\ statem_state_previous(M, FALSE)' = state_current ]_vars

\* state_previous is still null after a call that found no transition for
\* its event in a state that has transitions
C17_Witness ==
    /\ Dispatched /\ ret = STATEM_STATE_NOCHANGE
    /\ last.state_current # NULL
    /\ graph[last.state_current].transitions # << >>
    /\ last.state_previous = NULL
    /\ state_previous = NULL

\* the first transition after statem_init
C17_WitnessFirst ==
    /\ Matched /\ ret = STATEM_STATE_CHANGED
    /\ last.state_previous = NULL
    /\ state_previous = last.state_current
    /\ state_previous # NULL

(***************************************************************************)
(* C18                                                                     *)
(***************************************************************************)
\* C18: after a statem_handle_event call that returns neither
\* STATEM_ERR_ARG nor STATEM_STATE_NOCHANGE, state_previous is the state
\* that was current before the call and state_current is the resolved
\* target of the selected transition, or the error state when the current
\* state was null or the selected transition has no next state.
C18_PreviousCurrent ==
    (last.op = "handle_event" /\ ret \notin Quiet) =>
        /\ state_previous = last.state_current
        /\ state_current = IF Resolved THEN Target ELSE last.state_error
        /\ state_error = last.state_error
        /\ Resolved \/ Malformed \/ last.state_current = NULL

\* a second transition, to a state other than the two before it
C18_Witness ==
    /\ Resolved
    /\ last.state_previous # NULL
    /\ last.state_previous # last.state_current
    /\ state_previous = last.state_current
    /\ state_current # last.state_current
    /\ state_current # last.state_previous

\* a transition without next state taken after another transition
C18_WitnessError ==
    /\ Malformed
    /\ last.state_previous # NULL
    /\ last.state_previous # last.state_current
    /\ last.state_error # NULL
    /\ state_current = last.state_error
    /\ state_previous = last.state_current

(***************************************************************************)
(* C19 (post example)                                                      *)
(***************************************************************************)
\* The last call dispatched an ANSWER event with the payload d in POST.
PostAnswer(d) ==
    /\ Dispatched
    /\ last.state_current = state_post
    /\ last.event = Event(EVENT_POST_ANSWER, d)

Functions(cs) == [ i \in DOMAIN cs |-> cs[i].fn ]

\* C19 as amended: in POST an ANSWER event with payload 2 selects the
\* transition guarded with condition 2, invokes the exit action of POST,
\* then action_post_pass, then the entry action of POSTPASS, makes POSTPASS
\* current and returns STATEM_FINAL_STATE_RECHED, POSTPASS having neither
\* transitions nor parent; with payload 1 it selects the transition
\* guarded with condition 1 and makes POSTFAIL current.
C19_PostAnswer ==
    /\ PostAnswer(2) =>
          /\ last.transition = [ state |-> state_post, idx |-> 3 ]
          /\ Taken.condition = 2
          /\ state_current = state_postpass
          /\ state_previous = state_post
          /\ Signature(Callbacks) =
                << << "exit", state_post, 0 >>, << "action", state_post, 3 >>,
                   << "entry", state_postpass, 0 >> >>
          /\ Functions(Callbacks) =
                << "print_msg_exit", "action_post_pass", "print_msg_enter" >>
          /\ ret = STATEM_FINAL_STATE_RECHED
    /\ PostAnswer(1) =>
          /\ last.transition = [ state |-> state_post, idx |-> 2 ]
          /\ Taken.guard = "guard_post_fail"
          /\ state_current = state_postfail
          /\ Functions(Callbacks) =
                << "print_msg_exit", "action_post_fail", "print_msg_enter" >>

\* the answer 2 in POST
C19_Witness == PostAnswer(2) /\ state_current = state_postpass

\* the answer 1 in POST
C19_WitnessFail == PostAnswer(1) /\ state_current = state_postfail

\* C19 as stated: the answer 2 in POST moves to POSTPASS and the result is
\* STATEM_STATE_CHANGED.
C19_AsStated ==
    PostAnswer(2) =>
        /\ state_current = state_postpass
        /\ ret = STATEM_STATE_CHANGED

(***************************************************************************)
(* C20 (keyboard example)                                                  *)
(***************************************************************************)
\* The last call dispatched a keyboard event with the character ch in
\* state s.
Key(s, ch) ==
    /\ Dispatched
    /\ last.state_current = s
    /\ last.event = Event(EVENT_KEYBOARD, ch)

\* C20: in idle the character 'h' makes H current; in H a character from
\* 'x' on, which no transition names, fails both guards of H and the guard
\* of the group's first transition, selects the group's second transition,
\* which has no guard, and makes idle current: the exit action of H, then
\* print_msg_unrecognised_char, then the entry action of idle are invoked
\* and the call returns STATEM_STATE_CHANGED.
C20_KeyboardScenario ==
    /\ Key(state_idle, 104) =>
          /\ state_current = state_h
          /\ last.transition = [ state |-> state_idle, idx |-> 1 ]
    /\ \A ch \in 120 .. 119 + MaxOther :
          Key(state_h, ch) =>
              /\ Signature(Invoked("guard")) =
                    << << "guard", state_h, 1 >>, << "guard", state_h, 2 >>,
                       << "guard", state_charsgroup_check, 1 >> >>
              /\ last.transition = [ state |-> state_charsgroup_check, idx |-> 2 ]
              /\ Taken.guard = NULLFN
              /\ state_current = state_idle
              /\ state_previous = state_h
              /\ Signature(Callbacks) =
                    << << "exit", state_h, 0 >>,
                       << "action", state_charsgroup_check, 2 >>,
                       << "entry", state_idle, 0 >> >>
              /\ Functions(Callbacks) =
                    << "print_msg_exit", "print_msg_unrecognised_char",
                       "print_msg_enter" >>
              /\ ret = STATEM_STATE_CHANGED

\* 'x' in H, which 'h' had made current from idle
C20_Witness ==
    /\ Key(state_h, 120)
    /\ last.state_previous = state_idle
    /\ state_current = state_idle

(***************************************************************************)
(* C21                                                                     *)
(***************************************************************************)
\* C21: every entry action invoked belongs to a state whose state_entry is
\* null; a state with a state_entry never has its action_entry invoked.
C21_GroupEntryNeverInvoked ==
    \A i \in DOMAIN calls :
        calls[i].kind = "entry" => graph[calls[i].state].state_entry = NULL

(***************************************************************************)
(* C22                                                                     *)
(***************************************************************************)
\* C22: a selected transition with a next state has its action, if it has
\* one, invoked exactly once, whether or not the state returns to itself,
\* with the data of the state that was current before the call (also when
\* an ancestor owns the transition), the event of the call, and the data
\* of the state at the end of the state_entry path from the next state;
\* and no action is invoked if it has none.
C22_TransitionAction ==
    Resolved =>
        IF Taken.action = NULLFN
        THEN Invoked("action") = << >>
        ELSE /\ Len(Invoked("action")) = 1
             /\ LET a == Invoked("action")[1]
                IN  /\ a.fn = Taken.action
                    /\ a.state = last.transition.state
                    /\ a.idx = last.transition.idx
                    /\ a.arg1 = graph[last.state_current].data
                    /\ a.event = last.event
                    /\ a.arg3 = graph[Target].data

\* the action of an ancestor's transition to a group state, whose data
\* differs from the data of the state that becomes current
C22_Witness ==
    /\ Resolved /\ Taken.action # NULLFN
    /\ last.transition.state # last.state_current
    /\ Taken.state_next # Target
    /\ Target # last.state_current
    /\ Len(Invoked("action")) = 1
    /\ Invoked("action")[1].arg3 # graph[Taken.state_next].data

\* the action of an ancestor's transition that returns to the current state
C22_WitnessSelfLoop ==
    /\ Resolved /\ Taken.action # NULLFN
    /\ last.transition.state # last.state_current
    /\ Target = last.state_current
    /\ Len(Invoked("action")) = 1


(***************************************************************************)
(* Cyclic and acyclic hierarchies                                          *)
(***************************************************************************)
\* The state k parent (entry) pointers away from s, NULL past the end.
RECURSIVE Ancestor(_, _)
Ancestor(s, k) ==
    IF k = 0 \/ s = NULL THEN s ELSE Ancestor(graph[s].state_parent, k - 1)
RECURSIVE Descendant(_, _)
Descendant(s, k) ==
    IF k = 0 \/ s = NULL THEN s ELSE Descendant(graph[s].state_entry, k - 1)

\* A chain of as many pointers as there are states has come round.
ParentCyclic(s) == Ancestor(s, Cardinality(DOMAIN graph)) # NULL
EntryCyclic(s) == Descendant(s, Cardinality(DOMAIN graph)) # NULL
ParentReach(s) ==
    { Ancestor(s, k) : k \in 0 .. Cardinality(DOMAIN graph) } \ { NULL }
Acyclic ==
    \A s \in DOMAIN graph : ~ParentCyclic(s) /\ ~EntryCyclic(s)

\* A call of statem_handle_event is in progress.
Running == frame.pc # "returned"

\* The positions of a call in progress.
LoopTypeOK ==
    /\ frame.pc \in { "returned", "lookup", "descend" }
    /\ Running => last.op = "handle_event" /\ frame.state_next \in DOMAIN graph
    /\ frame.pc = "descend" => last.transition.state # NULL
    /\ ~Running => frame = NoFrame

\* On an acyclic graph the rounds end where the call taken as a whole ends.
LoopAsCall ==
    (Acyclic /\ ~Running /\ last.op = "handle_event") =>
        \E r \in { statem_handle_event(graph, PreMachine, FALSE, last.event) } :
            /\ r.m = M /\ r.ret = ret /\ r.transition = last.transition

\* Claim C23: on a graph whose parent chains and entry chains are acyclic,
\* every call of statem_handle_event that has begun runs to completion, and
\* a call that has returned has returned one of the six result codes.
C23_Terminates ==
    /\ [](last.op = "handle_event" /\ ~Running => ret \in ReturnVals)
    /\ (Running /\ Acyclic) ~> ~Running

\* a call in its second round of the parent loop, or of the entry loop, on
\* an acyclic graph
C23_Witness ==
    /\ Acyclic /\ Running
    /\ \/ frame.pc = "lookup" /\ frame.state_next # state_current
       \/ frame.pc = "descend" /\ frame.state_next # frame.first
C23_WitnessReturned ==
    /\ Acyclic /\ ~Running /\ last.op = "handle_event"
    /\ last.transition.state \notin { NULL, last.state_current }
    /\ state_current # Taken.state_next /\ Taken.state_next # NULL

\* The call is caught in the parent loop: the parent chain from state_next
\* comes round and none of its tables has a transition for the event.
StuckLookup ==
    /\ frame.pc = "lookup"
    /\ ParentCyclic(frame.state_next)
    /\ \A s \in ParentReach(frame.state_next) : MatchSet(s) = { }

\* The call is caught in the entry loop: the entry chain from state_next
\* comes round.
StuckDescend == frame.pc = "descend" /\ EntryCyclic(frame.state_next)

\* The last call was given a current state whose parent chain is cyclic and
\* has no transition for the event.
CyclicParents ==
    /\ last.op = "handle_event" /\ last.state_current # NULL
    /\ ParentCyclic(last.state_current)
    /\ \A s \in ParentReach(last.state_current) : MatchSet(s) = { }

\* The last call selected a transition into a cyclic entry chain.
CyclicEntries ==
    /\ last.op = "handle_event" /\ last.transition.state # NULL
    /\ Taken.state_next # NULL /\ EntryCyclic(Taken.state_next)

\* Claim C24: a call whose current state has a cyclic parent chain without a
\* transition for the event, or whose selected transition leads into a
\* cyclic entry chain, is in progress ever after: it stays in its loop, a
\* further round is always possible, it has not returned, and
\* state_current and state_previous are those from before the call.
C24_NeverReturns ==
    /\ CyclicParents => StuckLookup /\ ENABLED LoopLookup
    /\ CyclicEntries =>
           StuckDescend /\ ENABLED LoopDescend /\ Callbacks = << >>
    /\ (CyclicParents \/ CyclicEntries) => Running /\ M = PreMachine

\* the parent loop has come back to the current state after a round
\* elsewhere; the entry loop has come back to the transition's target
C24_Witness ==
    /\ CyclicParents /\ frame.state_next # state_current
    /\ graph[frame.state_next].state_parent = state_current
C24_WitnessEntry ==
    /\ CyclicEntries /\ frame.state_next # frame.first
    /\ graph[frame.state_next].state_entry = frame.first

\* A state that is no group: it is there and has no entry state.
Leaf(s) == s # NULL /\ graph[s].state_entry = NULL

\* Claim C25: statem_init makes the given initial state the current state,
\* and statem_stopped leaves the current state as it is; a
\* statem_handle_event call made while the current state and the error state
\* have a null state_entry leaves a current state with a null state_entry.
\* So from an initial state and an error state without entry state on,
\* state_current never rests on a group state.
C25_NoGroupAtRest ==
    /\ (last.op = "init" /\ ~last.fsm_null) =>
           state_current = last.state_init /\ state_error = last.state_err
    /\ last.op = "stopped" => M = PreMachine
    /\ (last.op = "handle_event" /\ Leaf(last.state_current)
           /\ Leaf(last.state_error)) =>
           Leaf(state_current) /\ state_error = last.state_error

\* a transition into a group at the head of an entry chain of two pointers
C25_Witness ==
    /\ Resolved /\ Leaf(last.state_current) /\ Leaf(last.state_error)
    /\ ~Leaf(Taken.state_next) /\ ~Leaf(graph[Taken.state_next].state_entry)
    /\ state_current = Target
\* the error path
C25_WitnessError ==
    Malformed /\ Leaf(last.state_current) /\ Leaf(last.state_error)

\* What statem_stopped returns when called with the machine as it is now.
StoppedNow == statem_stopped(graph, M, FALSE)

\* Claim C26: right after a statem_handle_event call that returned
\* STATEM_FINAL_STATE_RECHED statem_stopped returns true (not 0), and right
\* after one that returned STATEM_STATE_CHANGED it returns false (0).
C26_StoppedAgrees ==
    Dispatched =>
        /\ ret = STATEM_FINAL_STATE_RECHED => 0 \notin StoppedNow
        /\ ret = STATEM_STATE_CHANGED => StoppedNow = { 0 }

\* the half about STATEM_FINAL_STATE_RECHED alone
C26_StoppedAfterFinal ==
    (Dispatched /\ ret = STATEM_FINAL_STATE_RECHED) => StoppedNow = { 1 }

\* Claim C27: with a current state and an error state that are not null, a
\* statem_handle_event call leaves a current state that is not null (and
\* statem_init with a machine makes the given states the current state and
\* the error state, statem_stopped changes neither), so that the dispatch
\* and statem_stopped read a state that is there; with a null error state,
\* a selected transition without next state leaves state_current null, and
\* a call with a machine and an event made while state_current and the
\* error state are null returns STATEM_ERR_STATE_RECHED, invokes no
\* callback and leaves state_current null.
C27_CurrentNull ==
    /\ (last.op = "init" /\ ~last.fsm_null) =>
           state_current = last.state_init /\ state_error = last.state_err
    /\ last.op = "stopped" => M = PreMachine
    /\ last.op = "handle_event" => state_error = last.state_error
    /\ (last.op = "handle_event" /\ last.state_current # NULL
           /\ last.state_error # NULL) => state_current # NULL
    /\ state_current # NULL =>
           StoppedNow = { IF transition_nums(graph[state_current]) = 0
                          THEN 1 ELSE 0 }
    /\ (Malformed /\ last.state_error = NULL) =>
           state_current = NULL /\ ret = STATEM_ERR_STATE_RECHED
    /\ (Dispatched /\ last.state_current = NULL /\ last.state_error = NULL) =>
           /\ ret = STATEM_ERR_STATE_RECHED
           /\ calls = << >>
           /\ state_current = NULL

\* the call after the one that took the error path without an error state
C27_Witness ==
    /\ Dispatched /\ last.state_current = NULL /\ last.state_error = NULL
    /\ last.state_previous # NULL
\* the error path with an error state
C27_WitnessError ==
    Malformed /\ last.state_error # NULL /\ state_current = last.state_error

\* Claim C28: a statem_handle_event call invokes at most one exit action and
\* at most one entry action; the exit action is that of the state that was
\* current before the call, called with its data, and the entry action is
\* that of the state that is current after the call, called with its data;
\* so no exit or entry action of any other state is invoked, be it the
\* ancestor whose table held the transition, the group the transition
\* names, or a parent of the state left or entered.
C28_OneExitOneEntry ==
    last.op = "handle_event" =>
        /\ Len(Invoked("exit")) <= 1
        /\ Len(Invoked("entry")) <= 1
        /\ \A i \in DOMAIN calls :
               /\ calls[i].kind = "exit" =>
                      /\ calls[i].state = last.state_current
                      /\ calls[i].fn = graph[last.state_current].action_exti
                      /\ calls[i].arg1 = graph[last.state_current].data
               /\ calls[i].kind = "entry" =>
                      /\ calls[i].state = state_current
                      /\ calls[i].fn = graph[state_current].action_entry
                      /\ calls[i].arg1 = graph[state_current].data

\* an event escalated to a parent's table whose transition names a group:
\* the child is left and the leaf of the group is entered, and the parent
\* and the group have actions of their own
C28_Witness ==
    /\ Resolved /\ last.transition.state # last.state_current
    /\ Taken.state_next # Target
    /\ Len(Invoked("exit")) = 1 /\ Len(Invoked("entry")) = 1
    /\ graph[last.transition.state].action_exti # NULLFN
    /\ graph[Taken.state_next].action_entry # NULLFN
    /\ Target # last.state_current

\* The guards due in the table of state s, in table order: those of the
\* entries for the event's type, up to the first entry that matches.
GuardsIn(s) ==
    SelectSeq([ i \in 1 .. transition_nums(graph[s]) |-> << s, i >> ],
              LAMBDA x :
                  /\ graph[s].transitions[x[2]].event_type = last.event.type
                  /\ graph[s].transitions[x[2]].guard # NULLFN
                  /\ MatchSet(s) # { } => x[2] <= Min(MatchSet(s)))

\* ... and along the parent chain p from its j-th state on, up to the first
\* state whose table has an entry that matches.
RECURSIVE GuardsFrom(_, _)
GuardsFrom(p, j) ==
    IF j > Len(p) THEN << >>
    ELSE IF MatchSet(p[j]) # { } THEN GuardsIn(p[j])
    ELSE GuardsIn(p[j]) \o GuardsFrom(p, j + 1)

\* Claim C29: the guards a statem_handle_event call invokes are, in this
\* order, those of the entries for the event's type in the current state's
\* table up to its first matching entry, then, if none matched, the same
\* for the parent, and so on up to the first state on the parent chain with
\* a matching entry; each guard is called with its transition's condition
\* and the event; no guard is called when the current state is null or
\* terminal or an argument is null.
C29_GuardOrder ==
    last.op = "handle_event" =>
        /\ \A i \in DOMAIN calls :
               calls[i].kind = "guard" =>
                   LET t == graph[calls[i].state].transitions[calls[i].idx]
                   IN  /\ t.event_type = last.event.type
                       /\ calls[i].fn = t.guard
                       /\ calls[i].arg1 = t.condition
                       /\ calls[i].event = last.event
        /\ IF Dispatched /\ last.state_current # NULL
           THEN [ i \in DOMAIN Invoked("guard") |->
                    << Invoked("guard")[i].state, Invoked("guard")[i].idx >> ]
                = GuardsFrom(ParentChain(last.state_current), 1)
           ELSE Invoked("guard") = << >>
        /\ (last.state_current # NULL /\ Terminal(last.state_current)) =>
               Invoked("guard") = << >>

\* a guard of the current state failed, then a guard of the parent failed
\* and a later entry of the parent matched
C29_Witness ==
    /\ Matched /\ last.transition.state # last.state_current
    /\ Len(Invoked("guard")) >= 2
    /\ Invoked("guard")[1].state = last.state_current
    /\ Invoked("guard")[Len(Invoked("guard"))].state = last.transition.state
    /\ Invoked("guard")[Len(Invoked("guard"))].idx < last.transition.idx

\* Claim C30: in the keyboard example state_current is always one of idle,
\* H, I and A; every call returns STATEM_STATE_CHANGED or
\* STATEM_STATE_LOOPSELF, the latter when the state stays the same; a
\* character that no transition of the current state accepts is handled by
\* the group, by its reset transition or by its transition without guard,
\* and makes idle the current state.
C30_KeyboardStates ==
    /\ state_current \in { state_idle, state_h, state_i, state_a }
    /\ Dispatched =>
           /\ ret \in { STATEM_STATE_CHANGED, STATEM_STATE_LOOPSELF }
           /\ ret = STATEM_STATE_LOOPSELF <=> state_current = last.state_current
           /\ MatchSet(last.state_current) = { } =>
                  /\ last.transition.state = state_charsgroup_check
                  /\ last.transition.idx = (IF last.event.data = 33 THEN 1 ELSE 2)
                  /\ state_current = state_idle

\* in A, reached by 'h' and 'a', a character that A does not accept
C30_Witness ==
    /\ Dispatched /\ last.state_current = state_a
    /\ MatchSet(state_a) = { } /\ last.event.data # 33
    /\ state_current = state_idle /\ ret = STATEM_STATE_CHANGED
\* in idle, a character that idle does not accept
C30_WitnessLoopSelf ==
    /\ Dispatched /\ last.state_current = state_idle
    /\ MatchSet(state_idle) = { } /\ ret = STATEM_STATE_LOOPSELF

(***************************************************************************)
(* C31 (post example)                                                      *)
(***************************************************************************)
\* The last call was ignored: it invoked no action, changed nothing and
\* returned STATEM_STATE_NOCHANGE.
PostIgnored ==
    /\ ret = STATEM_STATE_NOCHANGE
    /\ M = PreMachine
    /\ Callbacks = << >>

\* Claim C31, call by call: the error state never becomes current and no
\* call returns STATEM_ERR_STATE_RECHED; in ROOT the event START makes POST
\* current and every other event is ignored; in POSTPASS and in POSTFAIL
\* every event is ignored and invokes not even a guard; in POSTBREAK the
\* event BREAKOFF invokes the exit action of POSTBREAK and then the entry
\* action of POST, state_post_enter, and makes POST current, and every
\* other event is ignored; in POST an ANSWER whose payload is neither 1 nor
\* 2 fails both guards and is ignored.
C31_PostCalls ==
    /\ state_current \in { state_root, state_post, state_postpass,
                           state_postfail, state_postbreak }
    /\ ret # STATEM_ERR_STATE_RECHED
    /\ (Dispatched /\ last.state_current = state_root) =>
           IF last.event.type = EVENT_POST_START
           THEN state_current = state_post /\ ret = STATEM_STATE_CHANGED
           ELSE PostIgnored
    /\ (Dispatched /\ last.state_current \in { state_postpass, state_postfail }) =>
           PostIgnored /\ calls = << >>
    /\ (Dispatched /\ last.state_current = state_postbreak) =>
           IF last.event.type = EVENT_POST_BREAKOFF
           THEN /\ state_current = state_post
                /\ state_previous = state_postbreak
                /\ Signature(calls) = << << "exit", state_postbreak, 0 >>,
                                         << "entry", state_post, 0 >> >>
                /\ Functions(calls) = << "print_msg_exit", "state_post_enter" >>
                /\ ret = STATEM_STATE_CHANGED
           ELSE PostIgnored
    /\ \A d \in (0 .. MaxAnswer) \ { 1, 2 } :
           PostAnswer(d) =>
               /\ PostIgnored
               /\ Signature(calls) = << << "guard", state_post, 2 >>,
                                        << "guard", state_post, 3 >> >>

\* Claim C31: in the post example, for every sequence of events from ROOT,
\* each call is as C31_PostCalls says, and from one state to the next: the
\* machine leaves ROOT only on START; once POSTPASS or POSTFAIL is current
\* the current state stays and every call returns STATEM_STATE_NOCHANGE;
\* the machine leaves POSTBREAK only on BREAKOFF, and for POST.
C31_PostLifecycle ==
    /\ []C31_PostCalls
    /\ [][ /\ (state_current = state_root /\ state_current' # state_root) =>
                 last'.event.type = EVENT_POST_START
           /\ state_current \in { state_postpass, state_postfail } =>
                 /\ state_current' = state_current
                 /\ ret' = STATEM_STATE_NOCHANGE
           /\ (state_current = state_postbreak
                 /\ state_current' # state_postbreak) =>
                 /\ last'.event.type = EVENT_POST_BREAKOFF
                 /\ state_current' = state_post ]_vars

\* BREAKOFF in POSTBREAK, which BREAKON had made current from POST: POST
\* is entered again
C31_Witness ==
    /\ Dispatched /\ last.state_current = state_postbreak
    /\ last.state_previous = state_post
    /\ last.event.type = EVENT_POST_BREAKOFF
    /\ state_current = state_post
\* an ANSWER with the payload 1 while POSTPASS is current
C31_WitnessAbsorbing ==
    /\ Dispatched /\ last.state_current = state_postpass
    /\ last.event = Event(EVENT_POST_ANSWER, 1)
    /\ state_current = state_postpass
\* an ANSWER with the payload 0 in POST
C31_WitnessAnswer == PostAnswer(0) /\ state_current = state_post
\* an event other than START in ROOT
C31_WitnessRoot ==
    /\ Dispatched /\ last.state_current = state_root
    /\ last.event.type = EVENT_POST_ANSWER /\ state_current = state_root
=============================================================================
